---- MODULE Spec2Model ----
(***************************************************************************)
(* A model of src/app.py, the Streamlit transaction analyzer: the SQLite   *)
(* tables transactions and removed_merchants, the categorizer, ingestion   *)
(* of uploaded CSV files, and the script that Streamlit re-runs from top   *)
(* to bottom on every user interaction.                                    *)
(*                                                                         *)
(* Text on which the code works character by character (descriptions,      *)
(* keywords, search terms) is a sequence of one-character strings.  Labels  *)
(* the code only copies and compares (categories) are TLA+ strings.        *)
(***************************************************************************)
EXTENDS Integers, Sequences, FiniteSets, TLC

VARIABLES
    transactions,       \* table transactions, in rowid order
    removed_merchants,  \* table removed_merchants, in rowid order
    uploaded_files,     \* the files the st.file_uploader widget holds
    search,             \* the content of the st.text_input widget
    view,               \* what the last script run computed and rendered
    event,              \* the interaction that triggered the last script run
    exported,           \* the rows last written to filtered_transactions.csv
    description,        \* categorizer harness: the argument of categorize
    calls,              \* categorizer harness: the results of the calls so far
    df,                 \* ingestion harness: the batch last passed to add_transactions
    before,             \* ingestion harness: the table before that call
    raised              \* ingestion harness: whether that call raised

vars == <<transactions, removed_merchants, uploaded_files, search, view, event,
          exported, description, calls, df, before, raised>>

appVars == <<transactions, removed_merchants, uploaded_files, search, view, event, exported>>
catVars == <<description, calls>>
ingVars == <<df, before, raised>>

(***************************************************************************)
(* Bounds of the model.                                                    *)
(***************************************************************************)
MaxParts == 2        \* parts concatenated into a description (categorizer harness)
MaxCalls == 2        \* calls of categorize on one description
MaxTx == 3           \* rows of the transactions table (application)
MaxFiles == 1        \* files held by the upload widget at once
MaxBatchRows == 1    \* rows of a batch (ingestion harness)
MaxStore == 2        \* rows of the transactions table (ingestion harness)

(***************************************************************************)
(* Text.                                                                   *)
(***************************************************************************)
UpperCase == <<"A","B","C","D","E","F","G","H","I","J","K","L","M",
               "N","O","P","Q","R","S","T","U","V","W","X","Y","Z">>
LowerCase == <<"a","b","c","d","e","f","g","h","i","j","k","l","m",
               "n","o","p","q","r","s","t","u","v","w","x","y","z">>

\* the lower-case letter of every upper-case letter, and the converse
ToLower ==
    [ch \in {UpperCase[i] : i \in 1..Len(UpperCase)} |->
        LowerCase[CHOOSE i \in 1..Len(UpperCase) : UpperCase[i] = ch]]

ToUpper ==
    [ch \in {LowerCase[i] : i \in 1..Len(LowerCase)} |->
        UpperCase[CHOOSE i \in 1..Len(LowerCase) : LowerCase[i] = ch]]

\* str.lower() on one character
lowerChar(ch) == IF ch \in DOMAIN ToLower THEN ToLower[ch] ELSE ch

\* str.lower()
lower(s) == [i \in 1..Len(s) |-> lowerChar(s[i])]

\* str.upper() (used only to build inputs)
upper(s) == [i \in 1..Len(s) |-> IF s[i] \in DOMAIN ToUpper THEN ToUpper[s[i]] ELSE s[i]]

\* Python's  sub in s  on strings
Contains(s, sub) ==
    \E i \in 0..(Len(s) - Len(sub)) : SubSeq(s, i + 1, i + Len(sub)) = sub

\* the least offset at which sub occurs in s (s.find(sub)); Len(s) when it does not
FindAt(s, sub) ==
    IF Contains(s, sub)
    THEN CHOOSE i \in 0..(Len(s) - Len(sub)) :
            /\ SubSeq(s, i + 1, i + Len(sub)) = sub
            /\ \A j \in 0..(i - 1) : SubSeq(s, j + 1, j + Len(sub)) # sub
    ELSE Len(s)

(***************************************************************************)
(* Auto-categorization rules, in declaration order (a Python dict iterates *)
(* in insertion order).                                                    *)
(***************************************************************************)
CATEGORY_RULES == <<
    [keyword |-> <<"S","t","a","r","b","u","c","k","s">>, category |-> "Coffee"],
    [keyword |-> <<"M","c","D","o","n","a","l","d">>,     category |-> "Fast Food"],
    [keyword |-> <<"U","b","e","r">>,                     category |-> "Transportation"],
    [keyword |-> <<"L","y","f","t">>,                     category |-> "Transportation"],
    [keyword |-> <<"A","m","a","z","o","n">>,             category |-> "Shopping"],
    [keyword |-> <<"T","a","r","g","e","t">>,             category |-> "Shopping"],
    [keyword |-> <<"C","o","s","t","c","o">>,             category |-> "Groceries"],
    [keyword |-> <<"W","a","l","m","a","r","t">>,         category |-> "Shopping"] >>

\* the rule's test:  keyword.lower() in description.lower()
RuleMatches_CaseSensitive(rule, d) == Contains(d, rule.keyword)

RuleMatches(rule, d) == Contains(lower(d), lower(rule.keyword))

RECURSIVE categorize_from(_, _)
categorize_from(d, i) ==
    IF i > Len(CATEGORY_RULES) THEN "Other"
    ELSE IF RuleMatches(CATEGORY_RULES[i], d) THEN CATEGORY_RULES[i].category
    ELSE categorize_from(d, i + 1)

\* a categorizer that lets the keyword occurring first in the description win
categorize_ByPosition(d) ==
    LET M == {i \in 1..Len(CATEGORY_RULES) : RuleMatches(CATEGORY_RULES[i], d)}
        At(i) == FindAt(lower(d), lower(CATEGORY_RULES[i].keyword))
    IN  IF M = {} THEN "Other"
        ELSE CATEGORY_RULES[CHOOSE i \in M :
                \A j \in M : At(i) < At(j) \/ (At(i) = At(j) /\ i <= j)].category

\* categorize(description), for a description that is a string
categorize(d) == categorize_from(d, 1)

(***************************************************************************)
(* Categorizer harness: a description is drawn from a bounded set and      *)
(* categorize is called on it.                                             *)
(***************************************************************************)
Keywords == {CATEGORY_RULES[i].keyword : i \in 1..Len(CATEGORY_RULES)}

Parts ==
    Keywords
    \cup {lower(k) : k \in Keywords}
    \cup {upper(<<"U","b","e","r">>), upper(<<"T","a","r","g","e","t">>)}
    \cup {<<" ">>, <<"D","o","w","n">>, <<"U","b">>, <<"#","7">>}

RECURSIVE Concats(_)
Concats(n) ==
    IF n = 0 THEN {<< >>}
    ELSE Concats(n - 1) \cup {p \o q : p \in Parts, q \in Concats(n - 1)}

Descriptions == Concats(MaxParts)

Categorize ==
    /\ Len(calls) < MaxCalls
    /\ calls' = Append(calls, categorize(description))
    /\ UNCHANGED description

(***************************************************************************)
(* Cells of an uploaded file as pd.read_csv delivers them, and of the      *)
(* table as SQLite stores them.                                            *)
(*   Description: a string, or NaN for an empty cell                       *)
(*   Category:    a label, or NaNCategory for an empty cell                *)
(*   Date:        the text of the cell as <<year, month, day>> (a text     *)
(*                that names no calendar day, such as <<2024, 13, 1>>, is  *)
(*                unparseable), or NaNDate for an empty cell               *)
(*   Amount:      [t |-> "num", val |-> n] (n in cents), or NaNAmount      *)
(* A column the file lacks is filled with '' (BlankText, BlankCategory,    *)
(* BlankDate, BlankAmount).                                                *)
(***************************************************************************)
NaN == <<"<NaN>">>
BlankText == << >>
NaNCategory == "<NaN>"
BlankCategory == ""
NaNDate == << >>
BlankDate == <<0, 0, 0>>
NaNAmount == [t |-> "nan", val |-> 0]
BlankAmount == [t |-> "text", val |-> 0]
Num(n) == [t |-> "num", val |-> n]

expected_cols == <<"Date", "Description", "Category", "Amount">>

IsLeap(y) == (y % 4 = 0 /\ y % 100 # 0) \/ y % 400 = 0

DaysInMonth(y, m) ==
    IF m = 2 THEN (IF IsLeap(y) THEN 29 ELSE 28)
    ELSE IF m \in {4, 6, 9, 11} THEN 30 ELSE 31

\* pd.to_datetime(cell, errors='coerce'): the date, or NaT (<< >>)
to_datetime(cell) ==
    IF /\ Len(cell) = 3
       /\ cell[1] >= 1
       /\ cell[2] \in 1..12
       /\ cell[3] >= 1 /\ cell[3] <= DaysInMonth(cell[1], cell[2])
    THEN cell
    ELSE << >>

\* .dt.strftime('%Y-%m-%d'): the normalized date text, NaN for NaT
strftime(t) == IF t = << >> THEN NaNDate ELSE t

\* .dt.to_period('M'): <<year, month>>, NaT (<< >>) for NaT
to_period_M(t) == IF t = << >> THEN << >> ELSE <<t[1], t[2]>>

\* lines 50-53: a column the file lacks is added, filled with ''
FillMissing(cols, row) ==
    [Date        |-> IF "Date" \in cols THEN row.Date ELSE BlankDate,
     Description |-> IF "Description" \in cols THEN row.Description ELSE BlankText,
     Category    |-> IF "Category" \in cols THEN row.Category ELSE BlankCategory,
     Amount      |-> IF "Amount" \in cols THEN row.Amount ELSE BlankAmount]

\* categorize(description) raises AttributeError on a float (NaN has no .lower())
categorize_raises(d) == d = NaN

\* line 57: fillna replaces NaN only; '' is not NaN
FillCategory(row) ==
    IF row.Category = NaNCategory THEN categorize(row.Description) ELSE row.Category

\* lines 56-57 on one row
Normalize(row) ==
    [date        |-> strftime(to_datetime(row.Date)),
     description |-> row.Description,
     category    |-> FillCategory(row),
     amount      |-> row.Amount]

\* line 58: to_sql appends the rows; SQLite assigns the next rowid as id
RECURSIVE to_sql(_, _)
to_sql(tx, rows) ==
    IF rows = << >> THEN tx
    ELSE to_sql(Append(tx, [id          |-> Len(tx) + 1,
                            date        |-> Head(rows).date,
                            description |-> Head(rows).description,
                            category    |-> Head(rows).category,
                            amount      |-> Head(rows).amount]),
                Tail(rows))

\* add_transactions(df) on table tx: line 57 applies categorize to the
\* Description of every row before anything is written
add_transactions(tx, d) ==
    LET filled == [i \in 1..Len(d.rows) |-> FillMissing(d.cols, d.rows[i])]
    IN  IF \E i \in 1..Len(filled) : categorize_raises(filled[i].Description)
        THEN [raised |-> TRUE, tx |-> tx]
        ELSE [raised |-> FALSE,
              tx |-> to_sql(tx, [i \in 1..Len(filled) |-> Normalize(filled[i])])]

\* get_transactions()
get_transactions(tx) == tx

(***************************************************************************)
(* The excluded-merchant table.  merchant is its PRIMARY KEY.              *)
(***************************************************************************)
\* an INSERT that adds the row whether or not the merchant is there
remove_merchant_NoIgnore(rm, merchant) == Append(rm, merchant)

\* remove_merchant(merchant): INSERT OR IGNORE
remove_merchant(rm, merchant) ==
    IF \E i \in 1..Len(rm) : rm[i] = merchant THEN rm ELSE Append(rm, merchant)

\* reinstate_merchants(): DELETE FROM removed_merchants
reinstate_merchants(rm) == << >>

\* get_removed_merchants(): the merchants as a list
get_removed_merchants(rm) == rm

(***************************************************************************)
(* The views the script derives (lines 88-130).                            *)
(***************************************************************************)
\* Series.isin(list)
isin(list, x) == \E i \in 1..Len(list) : list[i] = x

\* a filter that drops every description containing an excluded merchant
filtered_data_BySubstring(data, removed) ==
    SelectSeq(data, LAMBDA r :
        ~ \E i \in 1..Len(removed) : Contains(lower(r.description), lower(removed[i])))

\* line 90: data[~data['description'].isin(removed_merchants)]
filtered_data(data, removed) ==
    SelectSeq(data, LAMBDA r : ~ isin(removed, r.description))

\* line 91: the Month of a row
Month(r) == to_period_M(r.date)

\* Series.sum() over the amounts of rows: NaN is skipped
RECURSIVE SumAmount(_)
SumAmount(rows) ==
    IF rows = << >> THEN 0
    ELSE (IF Head(rows).amount.t = "num" THEN Head(rows).amount.val ELSE 0)
         + SumAmount(Tail(rows))

\* a sum over a column that holds '' (a file without an Amount column) raises
SumRaises(rows) == \E i \in 1..Len(rows) : rows[i].amount.t = "text"

MonthLess(a, b) == a[1] < b[1] \/ (a[1] = b[1] /\ a[2] < b[2])

RECURSIVE SortedMonths(_)
SortedMonths(S) ==
    IF S = {} THEN << >>
    ELSE LET least == CHOOSE a \in S : \A b \in S \ {a} : MonthLess(a, b)
         IN  <<least>> \o SortedMonths(S \ {least})

\* a grouping that keeps the NaT key (groupby(..., dropna=False))
GroupKeys_KeepNaT(rows) == {Month(rows[i]) : i \in 1..Len(rows)}

\* the keys of groupby(Month): NaT keys are dropped
GroupKeys(rows) == {Month(rows[i]) : i \in 1..Len(rows)} \ {<< >>}

\* groupby(Month)['amount'].sum().reset_index(): one row per month, ascending
groupby_Month_sum(rows) ==
    LET keys == GroupKeys(rows)
        named == SortedMonths(keys \ {<< >>})
        all == IF << >> \in keys THEN named \o << << >> >> ELSE named
    IN  [i \in 1..Len(all) |->
            [Month  |-> all[i],
             amount |-> SumAmount(SelectSeq(rows, LAMBDA r : Month(r) = all[i]))]]

\* the regular expression pat (a "." matches any character, every other
\* character of the model matches itself), ignoring case, matches s at offset i
RegexMatchesAt(pat, s, i) ==
    \A j \in 1..Len(pat) : pat[j] = "." \/ lowerChar(pat[j]) = lowerChar(s[i + j])

\* Series.str.contains(pat, case=False): re.search with re.IGNORECASE
str_contains(pat, s) ==
    \E i \in 0..(Len(s) - Len(pat)) : RegexMatchesAt(pat, s, i)

\* line 118: data[data['description'].str.contains(search, case=False)]
merchant_data(data, term) ==
    SelectSeq(data, LAMBDA r : str_contains(term, r.description))

(***************************************************************************)
(* One pass of the script, top to bottom, and the script run: a pass, and  *)
(* after st.experimental_rerun() a second pass with no button pressed.     *)
(***************************************************************************)
\* lines 81-84: each held file is read from its start and ingested, on every run;
\* the first exception ends the script
RECURSIVE upload_loop(_, _)
upload_loop(tx, files) ==
    IF files = << >> THEN [raised |-> FALSE, tx |-> tx]
    ELSE LET r == add_transactions(tx, Head(files))
         IN  IF r.raised THEN r ELSE upload_loop(r.tx, Tail(files))

\* what a script run leaves: the tables, the rendered view, the exported rows
Outcome(tx, rm, v, rerun, exp) ==
    [tx |-> tx, rm |-> rm, view |-> v, rerun |-> rerun, exported |-> exp]

\* the view of a run that ended in the upload loop
NoView ==
    [reached |-> "ingest", data |-> << >>, removed_merchants |-> << >>,
     filtered_data |-> << >>, monthly_summary |-> << >>, searched |-> FALSE,
     merchant_data |-> << >>, total_merchant |-> 0, merchant_monthly |-> << >>]

\* lines 88-91: data, removed_merchants, filtered_data
Loaded(data, removed) ==
    [NoView EXCEPT !.reached = "dashboard", !.data = data,
                   !.removed_merchants = removed,
                   !.filtered_data = filtered_data(data, removed)]

\* lines 108-109: monthly_summary
Dashboard(v) ==
    [v EXCEPT !.monthly_summary = groupby_Month_sum(v.filtered_data)]

\* lines 118-130: merchant_data, total_merchant, the merchant's monthly trend
SearchBlock(v, matched) ==
    [v EXCEPT !.searched = TRUE, !.merchant_data = matched,
              !.total_merchant = SumAmount(matched),
              !.merchant_monthly = groupby_Month_sum(matched)]

\* lines 132-149: the three buttons; v is the view rendered so far
Buttons(tx, rm, v, term, button, exp) ==
    IF term # << >> /\ button = "remove"
    THEN Outcome(tx, remove_merchant(rm, term), [v EXCEPT !.reached = "end"], TRUE, exp)
    ELSE IF v.removed_merchants # << >> /\ button = "reinstate"
    THEN Outcome(tx, reinstate_merchants(rm), [v EXCEPT !.reached = "end"], TRUE, exp)
    ELSE Outcome(tx, rm, [v EXCEPT !.reached = "end"], FALSE,
                 IF button = "export" THEN v.filtered_data ELSE exp)

\* lines 119-130 with the matched rows; total_merchant raises on a '' amount
SearchMatched(tx, rm, v, matched, term, button, exp) ==
    IF SumRaises(matched)
    THEN Outcome(tx, rm, [v EXCEPT !.reached = "search", !.searched = TRUE,
                                   !.merchant_data = matched], FALSE, exp)
    ELSE Buttons(tx, rm, SearchBlock(v, matched), term, button, exp)

\* lines 116-135
SearchStep(tx, rm, v, term, button, exp) ==
    IF term = << >>
    THEN Buttons(tx, rm, v, term, button, exp)
    ELSE SearchMatched(tx, rm, v, merchant_data(v.data, term),
                       term, button, exp)

\* lines 97-112; the grouped sums raise on a '' amount
DashboardStep(tx, rm, v, term, button, exp) ==
    IF SumRaises(v.filtered_data)
    THEN Outcome(tx, rm, v, FALSE, exp)
    ELSE SearchStep(tx, rm, Dashboard(v), term, button, exp)

\* lines 85-149 after the upload loop
AfterUpload(ing, rm, term, button, exp) ==
    IF ing.raised
    THEN Outcome(ing.tx, rm, NoView, FALSE, exp)
    ELSE DashboardStep(ing.tx, rm,
                       Loaded(get_transactions(ing.tx), get_removed_merchants(rm)),
                       term, button, exp)

\* one pass of the script
Pass(tx, rm, files, term, button, exp) ==
    AfterUpload(upload_loop(tx, files), rm, term, button, exp)

\* st.experimental_rerun(): the script starts again, no button pressed
Rerun(p, files, term) ==
    IF p.rerun THEN Pass(p.tx, p.rm, files, term, "none", p.exported) ELSE p

\* a script run
Script(tx, rm, files, term, button, exp) ==
    Rerun(Pass(tx, rm, files, term, button, exp), files, term)

(***************************************************************************)
(* The application: every user interaction re-runs the script.             *)
(***************************************************************************)
Uber == <<"U","b","e","r">>
Lyft == <<"L","y","f","t">>

AllCols == {expected_cols[i] : i \in 1..Len(expected_cols)}

\* the CSV files a user uploads
FileA == [cols |-> AllCols,
          rows |-> << [Date |-> <<2024, 3, 5>>, Description |-> Uber,
                       Category |-> NaNCategory, Amount |-> Num(5)] >>]
FileB == [cols |-> AllCols,
          rows |-> << [Date |-> <<2024, 13, 1>>, Description |-> Uber \o <<"#","7">>,
                       Category |-> "Food", Amount |-> Num(7)],
                      [Date |-> <<2024, 4, 1>>, Description |-> Lyft,
                       Category |-> NaNCategory, Amount |-> Num(3)] >>]
FileC == [cols |-> {"Date", "Description"},
          rows |-> << [Date |-> <<2024, 4, 1>>, Description |-> Lyft,
                       Category |-> NaNCategory, Amount |-> NaNAmount] >>]
FileD == [cols |-> AllCols,
          rows |-> << [Date |-> <<2024, 4, 1>>, Description |-> NaN,
                       Category |-> NaNCategory, Amount |-> Num(1)] >>]

AppFiles == {FileA, FileB, FileC, FileD}

\* what a user types into the search box
Terms == {Uber, lower(Uber), <<"u",".","e","r">>}

\* the tables and widgets after a script run with outcome r
Commit(r, files, term, ev) ==
    /\ Len(r.tx) <= MaxTx
    /\ transactions' = r.tx
    /\ removed_merchants' = r.rm
    /\ uploaded_files' = files
    /\ search' = term
    /\ view' = r.view
    /\ exported' = r.exported
    /\ event' = ev
    /\ UNCHANGED <<catVars, ingVars>>

Interact(files, term, button, ev) ==
    Commit(Script(transactions, removed_merchants, files, term, button, exported),
           files, term, ev)

\* the user adds a file to the upload widget
Upload ==
    /\ Len(uploaded_files) < MaxFiles
    /\ \E f \in AppFiles : Interact(Append(uploaded_files, f), search, "none", "upload")

\* the user empties the upload widget
ClearUpload ==
    /\ uploaded_files # << >>
    /\ Interact(<< >>, search, "none", "clear")

\* the user changes the search box (rendered at line 116)
Search ==
    /\ view.reached \in {"search", "end"}
    /\ \E t \in Terms \cup {<< >>} :
          /\ t # search
          /\ Interact(uploaded_files, t, "none", "search")

\* the user presses "Remove <search> from metrics" (rendered at line 132)
ClickRemove ==
    /\ view.reached = "end"
    /\ search # << >>
    /\ Interact(uploaded_files, search, "remove", "remove")

\* the user presses "Re-add all removed merchants" (rendered at line 141)
ClickReinstate ==
    /\ view.reached = "end"
    /\ view.removed_merchants # << >>
    /\ Interact(uploaded_files, search, "reinstate", "reinstate")

\* the user presses "Export filtered transactions as CSV" (rendered at line 147)
ClickExport ==
    /\ view.reached = "end"
    /\ Interact(uploaded_files, search, "export", "export")

Init ==
    /\ transactions = << >>
    /\ removed_merchants = << >>
    /\ uploaded_files = << >>
    /\ search = << >>
    /\ view = [NoView EXCEPT !.reached = "end"]
    /\ event = "open"
    /\ exported = << >>
    /\ description = << >>
    /\ calls = << >>
    /\ df = [cols |-> AllCols, rows |-> << >>]
    /\ before = << >>
    /\ raised = FALSE

Next ==
    \/ Upload
    \/ ClearUpload
    \/ Search
    \/ ClickRemove
    \/ ClickReinstate
    \/ ClickExport

Spec == Init /\ [][Next]_vars

(***************************************************************************)
(* The categorizer alone.                                                  *)
(***************************************************************************)
CatNext == Categorize /\ UNCHANGED <<appVars, ingVars>>

CatInitAll ==
    /\ description \in Descriptions
    /\ calls = << >>
    /\ transactions = << >>
    /\ removed_merchants = << >>
    /\ uploaded_files = << >>
    /\ search = << >>
    /\ view = [NoView EXCEPT !.reached = "end"]
    /\ event = "open"
    /\ exported = << >>
    /\ df = [cols |-> AllCols, rows |-> << >>]
    /\ before = << >>
    /\ raised = FALSE

SpecCat == CatInitAll /\ [][CatNext]_vars

(***************************************************************************)
(* Ingestion alone: batches are drawn from a bounded set and passed to     *)
(* add_transactions.                                                       *)
(***************************************************************************)
Starbucks_Downtown ==
    <<"S","t","a","r","b","u","c","k","s"," ">> \o <<"D","o","w","n","t","o","w","n">>

RawRows ==
    [Date : {<<2024, 3, 5>>, <<2024, 13, 1>>, NaNDate},
     Description : {Starbucks_Downtown, NaN},
     Category : {"Food", NaNCategory},
     Amount : {Num(450), NaNAmount}]

\* a file that lacks a column has no cell of it
Present(cols, row) ==
    /\ "Date" \notin cols => row.Date = NaNDate
    /\ "Description" \notin cols => row.Description = NaN
    /\ "Category" \notin cols => row.Category = NaNCategory
    /\ "Amount" \notin cols => row.Amount = NaNAmount

RECURSIVE RowSeqs(_)
RowSeqs(n) ==
    IF n = 0 THEN {<< >>}
    ELSE RowSeqs(n - 1) \cup {Append(q, r) : q \in RowSeqs(n - 1), r \in RawRows}

Batches ==
    {b \in [cols : SUBSET AllCols, rows : RowSeqs(MaxBatchRows)] :
        /\ b.rows # << >>
        /\ \A i \in 1..Len(b.rows) : Present(b.cols, b.rows[i])}

Ingest ==
    \E b \in Batches :
        LET r == add_transactions(transactions, b)
        IN  /\ Len(r.tx) <= MaxStore
            /\ transactions' = r.tx
            /\ df' = b
            /\ before' = transactions
            /\ raised' = r.raised
            /\ UNCHANGED <<removed_merchants, uploaded_files, search, view, event,
                           exported, catVars>>

IngNext == Ingest

SpecIngest == Init /\ [][IngNext]_vars

(***************************************************************************)
(* Properties.  The helpers below restate, from the text of the claims,    *)
(* what the properties compare the program's results with.                 *)
(***************************************************************************)
\* the rules whose keyword the description contains, ignoring case
ContainedRules(d) ==
    {i \in 1..Len(CATEGORY_RULES) :
        Contains(lower(d), lower(CATEGORY_RULES[i].keyword))}

\* the contained rule declared first
FirstDeclared(d) == CHOOSE i \in ContainedRules(d) : \A j \in ContainedRules(d) : i <= j

\* the set of excluded merchants
Excluded == {removed_merchants[i] : i \in 1..Len(removed_merchants)}

NoDuplicates(list) ==
    \A i, j \in 1..Len(list) : list[i] = list[j] => i = j

IsPrefix(p, q) == Len(p) <= Len(q) /\ SubSeq(q, 1, Len(p)) = p

RECURSIVE SumTotals(_)
SumTotals(summary) ==
    IF summary = << >> THEN 0 ELSE Head(summary).amount + SumTotals(Tail(summary))

\* C1: after a script run that loaded the data, filtered_data holds exactly the
\* stored transactions whose description equals no excluded merchant; after
\* remove_merchant(m) the merchant m is excluded, so every row with description m
\* is gone from the view and no other row is; after reinstate_merchants() the
\* excluded set is empty and the view is the full transaction set.
C1_ExclusionIsExactEquality ==
    /\ view.reached # "ingest" =>
          view.filtered_data =
              SelectSeq(transactions, LAMBDA r : r.description \notin Excluded)
    /\ event = "remove" =>
          /\ view.reached = "end"
          /\ search \in Excluded
          /\ \A i \in 1..Len(view.filtered_data) :
                view.filtered_data[i].description # search
          /\ \A i \in 1..Len(transactions) :
                transactions[i].description \notin Excluded =>
                    \E j \in 1..Len(view.filtered_data) :
                        view.filtered_data[j] = transactions[i]
    /\ event = "reinstate" =>
          /\ view.reached = "end"
          /\ Excluded = {}
          /\ view.filtered_data = transactions

\* C1 witness: a merchant was just excluded, a stored row carries exactly its name,
\* and another stored row only contains that name and stays in the view.
C1_Witness ==
    /\ event = "remove"
    /\ \E i \in 1..Len(transactions) : transactions[i].description = search
    /\ \E j \in 1..Len(view.filtered_data) :
          /\ view.filtered_data[j].description # search
          /\ Contains(view.filtered_data[j].description, search)

\* C9: the excluded-merchant table and the list read from it never hold a merchant
\* twice, and remove_merchant(m) on a table that holds m leaves the table as it is.
C9_ExcludedSetHasNoDuplicate ==
    /\ NoDuplicates(removed_merchants)
    /\ NoDuplicates(view.removed_merchants)
    /\ \A m \in Excluded : remove_merchant(removed_merchants, m) = removed_merchants

\* C9 witness: the merchant last excluded was in the table before another one,
\* so the last remove_merchant call found it there.
C9_Witness ==
    /\ event = "remove"
    /\ Len(removed_merchants) = 2
    /\ removed_merchants[1] = search

\* C4 as claimed: the monthly totals add up to the sum of amount over the whole
\* filtered set, rows with a null date included.
C4_MonthlyTotalsCoverEveryRow ==
    view.reached \in {"search", "end"} =>
        SumTotals(view.monthly_summary) = SumAmount(view.filtered_data)

\* C4 as amended: the monthly totals add up to the sum of amount over the rows of
\* the filtered set whose date is not null, and every month has one total.
C4_MonthlyTotalsCoverDatedRows ==
    view.reached \in {"search", "end"} =>
        /\ SumTotals(view.monthly_summary) =
              SumAmount(SelectSeq(view.filtered_data, LAMBDA r : r.date # << >>))
        /\ \A i, j \in 1..Len(view.monthly_summary) :
              view.monthly_summary[i].Month = view.monthly_summary[j].Month => i = j

\* C4 witness: the filtered set spans two months and holds a row with a null date
\* and an amount that is not zero.
C4_Witness ==
    /\ view.reached = "end"
    /\ Len(view.monthly_summary) >= 2
    /\ \E i \in 1..Len(view.filtered_data) :
          /\ view.filtered_data[i].date = << >>
          /\ view.filtered_data[i].amount.t = "num"
          /\ view.filtered_data[i].amount.val # 0

\* C8 as claimed: the rows a search shows are exactly the stored rows whose
\* description contains the term as a substring, ignoring case, whatever is
\* excluded; the total and the monthly breakdown are those of these rows.
C8_SearchIsSubstringMatchOverAllRows ==
    (view.searched /\ view.reached = "end") =>
        LET hits == SelectSeq(transactions,
                        LAMBDA r : Contains(lower(r.description), lower(search)))
        IN  /\ view.merchant_data = hits
            /\ view.total_merchant = SumAmount(hits)
            /\ SumTotals(view.merchant_monthly) =
                  SumAmount(SelectSeq(hits, LAMBDA r : r.date # << >>))

\* C10 as claimed: a script run triggered by a search, an exclude, a reinstate or
\* an export leaves the transactions table as it was.
C10_OnlyUploadsAddRows ==
    [][event' \in {"search", "remove", "reinstate", "export"} =>
          transactions' = transactions]_vars

\* C6 as claimed: whenever the description contains a configured keyword, ignoring
\* case, categorize returns that keyword's category; when it contains none,
\* categorize returns "Other".
C6_EveryContainedKeywordDecides ==
    \A n \in 1..Len(calls) :
        /\ \A i \in ContainedRules(description) : calls[n] = CATEGORY_RULES[i].category
        /\ ContainedRules(description) = {} => calls[n] = "Other"

\* C6 as amended: when the description contains a configured keyword, ignoring
\* case, categorize returns the category of a contained keyword, the one declared
\* first; when it contains none, categorize returns "Other".
C6_FirstContainedKeywordDecides ==
    \A n \in 1..Len(calls) :
        /\ ContainedRules(description) # {} =>
              calls[n] = CATEGORY_RULES[FirstDeclared(description)].category
        /\ ContainedRules(description) = {} => calls[n] = "Other"

\* C6 witness: categorize was called on a description that holds a keyword only
\* in another case than the rule's, and on nothing else of the rules.
C6_Witness ==
    /\ calls # << >>
    /\ Cardinality(ContainedRules(description)) = 1
    /\ \A i \in 1..Len(CATEGORY_RULES) :
          ~ Contains(description, CATEGORY_RULES[i].keyword)
    /\ calls[1] # "Other"

\* C7: when the description contains more than one configured keyword, every call
\* of categorize returns the category of the contained keyword that is declared
\* first in CATEGORY_RULES, whatever the keywords' lengths and places.
C7_FirstDeclaredKeywordWins ==
    Cardinality(ContainedRules(description)) >= 2 =>
        \A n \in 1..Len(calls) :
            \A i \in ContainedRules(description) :
                (\A j \in ContainedRules(description) : i <= j) =>
                    calls[n] = CATEGORY_RULES[i].category

\* C7 witness: categorize was called twice on a description in which the keyword
\* declared first is shorter than another contained keyword of another category
\* and occurs after it.
C7_Witness ==
    /\ Len(calls) >= 2
    /\ \E i, j \in ContainedRules(description) :
          /\ \A k \in ContainedRules(description) : i <= k
          /\ CATEGORY_RULES[i].category # CATEGORY_RULES[j].category
          /\ Len(CATEGORY_RULES[i].keyword) < Len(CATEGORY_RULES[j].keyword)
          /\ FindAt(lower(description), lower(CATEGORY_RULES[j].keyword))
                < FindAt(lower(description), lower(CATEGORY_RULES[i].keyword))
          /\ calls[1] = CATEGORY_RULES[i].category
          /\ calls[2] = calls[1]

\* C2 as claimed: after add_transactions(batch), get_transactions() returns the
\* rows it returned before, followed by as many new rows as the batch holds.
C2_TableGrowsByBatchSize ==
    /\ Len(get_transactions(transactions)) = Len(before) + Len(df.rows)
    /\ IsPrefix(before, get_transactions(transactions))

\* C3 as claimed: for every row of an ingested batch, the stored category is
\* categorize(description) when the Category cell is blank or the file has no
\* Category column, and the cell's value otherwise.
C3_BlankOrAbsentCategoryIsComputed ==
    ~ raised =>
        \A i \in 1..Len(df.rows) :
            Len(before) + i <= Len(transactions) =>
                LET stored == transactions[Len(before) + i]
                IN  IF "Category" \notin df.cols \/ df.rows[i].Category = NaNCategory
                    THEN stored.category = categorize(stored.description)
                    ELSE stored.category = df.rows[i].Category

\* C5 as claimed: add_transactions never fails: every batch is appended whole,
\* with missing columns blank, an unparseable date null and a blank cell kept.
C5_IngestionNeverRejects ==
    /\ ~ raised
    /\ Len(transactions) = Len(before) + Len(df.rows)
    /\ \A i \in 1..Len(df.rows) :
          Len(before) + i <= Len(transactions) =>
              LET stored == transactions[Len(before) + i]
              IN  /\ "Description" \notin df.cols => stored.description = BlankText
                  /\ "Amount" \notin df.cols => stored.amount = BlankAmount
                  /\ to_datetime(df.rows[i].Date) = << >> => stored.date = NaNDate

====
